---- MODULE Spec2Model ----
(***************************************************************************)
(* Edit / change-tracking model of the process hierarchy tool.             *)
(*                                                                         *)
(* State: the working tree (window.hierarchyData), the baseline            *)
(* (window.originalHierarchyData), the pending change set (modified, added,*)
(* deleted), the undo/redo log (changeHistory, historyIndex) and the       *)
(* search index.  One action per handler: addProcess, saveProcess,         *)
(* deleteProcess, undoChange, redoChange, discardAllChanges, exportToExcel *)
(* and importFromExcel.                                                    *)
(*                                                                         *)
(* Objects and aliasing.  A node of the tree is addressed by its path (the *)
(* child indices from the root); nodes are only ever appended, so a path   *)
(* names the same JS object until the tree is replaced as a whole.  An     *)
(* entry of pendingChanges.added is either the very node object that was   *)
(* pushed into the tree (path # <<>>) or the detached form-data object     *)
(* that saveProcess stored in its place (path = <<>>, data = the record).  *)
(***************************************************************************)
EXTENDS Integers, Sequences, FiniteSets, TLC

\* ------------------------------------------------------------------ bounds
\* the edit log capacity of the program
MAX_HISTORY == 50

\* committed edits explored by the full specification
MaxEdits == 2

\* committed edits explored by the history specification (MAX_HISTORY + 5
\* sequential edits and one more)
MaxHistoryEdits == 56

\* committed edits explored by the edit specification
MaxDeepEdits == 3

\* committed edits between import and export in the sheet specification
MaxSheetEdits == 1

\* edges of the graphs handed to the layout
MaxFlowEdges == 2

\* data rows of the dependency sheets
MaxRows == 2

\* committed edits explored by the filter specification
MaxFilterEdits == 1

\* process names typed into the add / edit forms ("" models an empty field):
\* a new name, and the name of a process the loaded hierarchy already has
Names == {"A", "Collect Reads"}

\* the names the full specification types
FewNames == {"A"}

Levels == {"L1", "L2", "L3"}

\* (objective, use_case, it_release) triples typed into the forms
Details ==
    { [objective |-> "o", use_case |-> "Use Case 13", it_release |-> "IT Release 2"] }

\* ------------------------------------------------------------------ state
VARIABLES
    hierarchyData,          \* window.hierarchyData: the working tree
    originalHierarchyData,  \* window.originalHierarchyData: the baseline
    modified,               \* pendingChanges.modified: id -> form data
    added,                  \* pendingChanges.added: id -> node object
    deleted,                \* pendingChanges.deleted: set of ids
    changeHistory,          \* window.changeHistory
    historyIndex,           \* window.historyIndex
    searchIndex,            \* window.searchIndex
    now,                    \* number of entries ever pushed (orders the timestamps)
    lastOp                  \* the last handler that ran, its inputs and its result

vars == << hierarchyData, originalHierarchyData, modified, added, deleted,
           changeHistory, historyIndex, searchIndex, now, lastOp >>

\* ------------------------------------------------------------ tree helpers
HasChildren(node) == "children" \in DOMAIN node

\* `${processData.level}_${processData.name}`; the root carries no level
getProcessId(processData) ==
    IF "level" \in DOMAIN processData
    THEN processData.level \o "_" \o processData.name
    ELSE "undefined_" \o processData.name

RECURSIVE NodeAt(_, _)
NodeAt(node, path) ==
    IF path = <<>> THEN node
    ELSE NodeAt(node.children[Head(path)], Tail(path))

RECURSIVE ReplaceAt(_, _, _)
ReplaceAt(node, path, new) ==
    IF path = <<>> THEN new
    ELSE LET i == Head(path) IN
         [node EXCEPT !.children =
             [node.children EXCEPT ![i] = ReplaceAt(node.children[i], Tail(path), new)]]

RECURSIVE Flatten(_)
Flatten(seqs) ==
    IF seqs = <<>> THEN <<>> ELSE Head(seqs) \o Flatten(Tail(seqs))

\* paths of node and of everything below it, parent first, children in order
RECURSIVE PreOrder(_, _)
PreOrder(node, path) ==
    <<path>> \o
    (IF HasChildren(node)
     THEN Flatten([i \in 1..Len(node.children) |->
                      PreOrder(node.children[i], Append(path, i))])
     ELSE <<>>)

\* paths of all process nodes of a tree (the root excluded), in search order
NodePaths(root) == Tail(PreOrder(root, <<>>))

Range(s) == { s[i] : i \in 1..Len(s) }

\* Object.assign(target, source)
ObjectAssign(target, source) ==
    [f \in DOMAIN target \cup DOMAIN source |->
        IF f \in DOMAIN source THEN source[f] ELSE target[f]]

\* the first path of a sequence, <<>> (never the path of a process) when empty
FirstOf(paths) == IF paths = <<>> THEN <<>> ELSE Head(paths)

\* every name a process can carry in this model: the baseline's, the forms'
\* and the import sheets'
NameUniverse ==
    Names \cup {"Billing", "Meter Reading", "Collect Reads", "A_B", "C", "B_C"}

\* processId.match(/^(L\d+)_/): the level an id starts with, 'L3' when the id
\* does not start with one
LevelOfId(processId) ==
    LET ls == { l \in Levels : \E n \in NameUniverse : processId = l \o "_" \o n }
    IN  IF ls = {} THEN "L3" ELSE CHOOSE l \in ls : TRUE

\* ------------------------------------------------------------ lookups
\* findProcessByName: the first node, in search order, with that name
findProcessByName(root, name) ==
    FirstOf(SelectSeq(NodePaths(root), LAMBDA p : NodeAt(root, p).name = name))

\* the tree search of findProcessById / updateNode: the first node with that id
FindPathById(root, processId) ==
    FirstOf(SelectSeq(NodePaths(root),
                      LAMBDA p : getProcessId(NodeAt(root, p)) = processId))

\* the object an entry of pendingChanges.added holds
AddedObject(root, entry) ==
    IF entry.path # <<>> THEN NodeAt(root, entry.path) ELSE entry.data

NoProcess == [missing |-> TRUE]

\* findProcessById: the added map is consulted first, then the tree
findProcessById(root, addedMap, processId) ==
    IF processId \in DOMAIN addedMap THEN AddedObject(root, addedMap[processId])
    ELSE LET p == FindPathById(root, processId)
         IN  IF p = <<>> THEN NoProcess ELSE NodeAt(root, p)

\* ids of a node and of all its descendants (markChildrenDeleted's walk)
SubtreeIds(node) ==
    { getProcessId(NodeAt(node, p)) : p \in Range(PreOrder(node, <<>>)) }

\* countChildren (deleteProcess): the number of descendants of a node
countChildren(node) == Len(PreOrder(node, <<>>)) - 1

\* ------------------------------------------------------------ search index
\* buildIndex without the seen_l1 and seen_l2 sets: every node gets an entry
RECURSIVE buildIndex_NoDedup(_, _, _, _, _)
buildIndex_NoDedup(root, paths, seen_l1, seen_l2, acc) ==
    IF paths = <<>> THEN acc
    ELSE
      LET p == Head(paths)
          node == NodeAt(root, p)
          parentName == IF Len(p) = 1 THEN ""
                        ELSE NodeAt(root, SubSeq(p, 1, Len(p) - 1)).name
      IN  buildIndex_NoDedup(root, Tail(paths), seen_l1, seen_l2,
              Append(acc, [name |-> node.name, level |-> node.level,
                           parent |-> parentName,
                           details |-> IF node.level = "L3"
                                       THEN [objective |-> node.objective,
                                             use_case |-> node.use_case,
                                             it_release |-> node.it_release]
                                       ELSE <<>>]))

RECURSIVE buildIndex(_, _, _, _, _)
buildIndex(root, paths, seen_l1, seen_l2, acc) ==
    IF paths = <<>> THEN acc
    ELSE
      LET p == Head(paths)
          node == NodeAt(root, p)
          parentName == IF Len(p) = 1 THEN ""
                        ELSE NodeAt(root, SubSeq(p, 1, Len(p) - 1)).name
      IN  IF node.level = "L1" THEN
              buildIndex(root, Tail(paths), seen_l1 \cup {node.name}, seen_l2,
                  IF node.name \in seen_l1 THEN acc
                  ELSE Append(acc, [name |-> node.name, level |-> "L1",
                                    parent |-> "", details |-> <<>>]))
          ELSE IF node.level = "L2" THEN
              buildIndex(root, Tail(paths), seen_l1, seen_l2 \cup {node.name},
                  IF node.name \in seen_l2 THEN acc
                  ELSE Append(acc, [name |-> node.name, level |-> "L2",
                                    parent |-> parentName, details |-> <<>>]))
          ELSE
              buildIndex(root, Tail(paths), seen_l1, seen_l2,
                  Append(acc, [name |-> node.name, level |-> "L3",
                               parent |-> parentName,
                               details |-> [objective |-> node.objective,
                                            use_case |-> node.use_case,
                                            it_release |-> node.it_release]]))

\* updateSearchIndex: the index rebuilt from the whole tree
updateSearchIndex(root) == buildIndex(root, NodePaths(root), {}, {}, <<>>)

\* ------------------------------------------------------------ change count
MapSize(m) == Cardinality(DOMAIN m)

getChangeCount == MapSize(modified) + MapSize(added) + Cardinality(deleted)

EmptyMap == <<>>

MapSet(m, k, v) == [x \in DOMAIN m \cup {k} |-> IF x = k THEN v ELSE m[x]]

MapDeleteAll(m, ks) == [x \in DOMAIN m \ ks |-> m[x]]

\* ------------------------------------------------------------ history
HistoryEntry(action, processId, data, timestamp) ==
    [action |-> action, processId |-> processId, data |-> data,
     timestamp |-> timestamp]

\* addToHistory evicting the newest entry instead of the oldest
addToHistory_EvictNewest(history, index, action, processId, data, timestamp) ==
    LET kept   == IF index < Len(history) - 1
                  THEN SubSeq(history, 1, index + 1) ELSE history
        pushed == Append(kept, HistoryEntry(action, processId, data, timestamp))
    IN  IF Len(pushed) > MAX_HISTORY
        THEN [changeHistory |-> SubSeq(pushed, 1, MAX_HISTORY),
              historyIndex |-> index]
        ELSE [changeHistory |-> pushed, historyIndex |-> Len(pushed) - 1]

\* addToHistory without the slice that drops the entries after the cursor
addToHistory_NoTruncate(history, index, action, processId, data, timestamp) ==
    LET pushed == Append(history, HistoryEntry(action, processId, data, timestamp))
    IN  IF Len(pushed) > MAX_HISTORY
        THEN [changeHistory |-> Tail(pushed), historyIndex |-> index]
        ELSE [changeHistory |-> pushed, historyIndex |-> Len(pushed) - 1]

\* addToHistory leaving the cursor where it was
addToHistory_KeepsCursor(history, index, action, processId, data, timestamp) ==
    LET kept   == IF index < Len(history) - 1
                  THEN SubSeq(history, 1, index + 1) ELSE history
        pushed == Append(kept, HistoryEntry(action, processId, data, timestamp))
    IN  IF Len(pushed) > MAX_HISTORY
        THEN [changeHistory |-> Tail(pushed), historyIndex |-> index]
        ELSE [changeHistory |-> pushed, historyIndex |-> index]

\* addToHistory: the log and the cursor after the push.  historyIndex is the
\* 0-based JS index, the log a 1-based sequence.
addToHistory(history, index, action, processId, data, timestamp) ==
    LET kept   == IF index < Len(history) - 1
                  THEN SubSeq(history, 1, index + 1) ELSE history
        pushed == Append(kept, HistoryEntry(action, processId, data, timestamp))
    IN  IF Len(pushed) > MAX_HISTORY
        THEN [changeHistory |-> Tail(pushed), historyIndex |-> index]
        ELSE [changeHistory |-> pushed, historyIndex |-> Len(pushed) - 1]

\* ------------------------------------------------------------ initial state
\* the hierarchy document the page loads
LoadedHierarchy ==
    [name |-> "Process Hierarchy",
     children |-> <<
        [name |-> "Billing", level |-> "L1",
         children |-> <<
            [name |-> "Meter Reading", level |-> "L2",
             children |-> <<
                [name |-> "Collect Reads", level |-> "L3",
                 objective |-> "", use_case |-> "Use Case 1",
                 it_release |-> "IT Release 1"] >>] >>] >>]

NoOp == [op |-> "load"]

Init ==
    /\ hierarchyData = LoadedHierarchy
    /\ originalHierarchyData = LoadedHierarchy
    /\ modified = EmptyMap
    /\ added = EmptyMap
    /\ deleted = {}
    /\ changeHistory = <<>>
    /\ historyIndex = -1
    /\ searchIndex = updateSearchIndex(LoadedHierarchy)
    /\ now = 0
    /\ lastOp = NoOp

\* ------------------------------------------------------------ addProcess
\* what addProcess returns; a success also records the inputs it was given
AddFailure(error) ==
    [op |-> "addProcess", success |-> FALSE, error |-> error]

AddSuccess(name, level, processId) ==
    [op |-> "addProcess", success |-> TRUE, name |-> name, level |-> level,
     processId |-> processId]

\* the validation of addProcess without its parent level checks
AddValidationError_NoLevelCheck(root, name, level, parentName) ==
    IF name = "" \/ level = "" THEN "Process name and level are required."
    ELSE IF parentName # "" THEN
        IF findProcessByName(root, parentName) = <<>>
            THEN "Parent process \"" \o parentName \o "\" not found."
        ELSE ""
    ELSE IF level # "L1"
        THEN "Parent process is required for " \o level \o " processes."
    ELSE ""

\* the validation of addProcess: the error it returns, "" when the inputs pass
AddValidationError(root, name, level, parentName) ==
    IF name = "" \/ level = "" THEN "Process name and level are required."
    ELSE IF parentName # "" THEN
        LET parentPath == findProcessByName(root, parentName) IN
        IF parentPath = <<>>
            THEN "Parent process \"" \o parentName \o "\" not found."
        ELSE LET parentNode == NodeAt(root, parentPath) IN
             IF level = "L1" /\ parentNode.level # "L1"
                 THEN "L1 processes cannot have a parent."
             ELSE IF level = "L2" /\ parentNode.level # "L1"
                 THEN "L2 processes must have an L1 parent."
             ELSE IF level = "L3" /\ parentNode.level # "L2"
                 THEN "L3 processes must have an L2 parent."
             ELSE ""
    ELSE IF level # "L1"
        THEN "Parent process is required for " \o level \o " processes."
    ELSE ""

\* the object addProcess creates
NewProcess(name, level, d) ==
    IF level = "L3"
    THEN [name |-> name, level |-> level, objective |-> d.objective,
          use_case |-> d.use_case, it_release |-> d.it_release]
    ELSE [name |-> name, level |-> level, children |-> <<>>]

\* where addProcess pushes the new node: the path of the node that receives
\* it (<<>> is the root)
AddTargetPath(root, level, parentName) ==
    IF level = "L1" THEN <<>> ELSE findProcessByName(root, parentName)

\* the tree with newProcess pushed onto the children of the node at path
PushChild(root, path, newProcess) ==
    LET parent == NodeAt(root, path)
    IN  ReplaceAt(root, path,
                  [parent EXCEPT !.children = Append(parent.children, newProcess)])

\* addProcess logging the attempt before it validates its inputs
addProcess_LogsBeforeValidation(name, level, parentName, d, refreshThrows) ==
    LET error == AddValidationError(hierarchyData, name, level, parentName)
        h     == addToHistory(changeHistory, historyIndex, "add",
                              level \o "_" \o name, NewProcess(name, level, d),
                              now + 1)
    IN  /\ error # ""
        /\ lastOp' = AddFailure(error)
        /\ changeHistory' = h.changeHistory
        /\ historyIndex' = h.historyIndex
        /\ now' = now + 1
        /\ UNCHANGED << hierarchyData, originalHierarchyData, modified, added,
                        deleted, searchIndex >>

\* addProcess(name, level, parentName, description, useCase, itRelease);
\* refreshThrows: the view refresh that follows the insertion throws
addProcess(name, level, parentName, d, refreshThrows) ==
    LET error == AddValidationError(hierarchyData, name, level, parentName) IN
    IF error # "" THEN
        /\ lastOp' = AddFailure(error)
        /\ UNCHANGED << hierarchyData, originalHierarchyData, modified, added,
                        deleted, changeHistory, historyIndex, searchIndex, now >>
    ELSE
        LET newProcess == NewProcess(name, level, d)
            target     == AddTargetPath(hierarchyData, level, parentName)
            newTree    == PushChild(hierarchyData, target, newProcess)
            newPath    == Append(target, Len(NodeAt(newTree, target).children))
            processId  == getProcessId(newProcess)
            h          == addToHistory(changeHistory, historyIndex, "add",
                                       processId, newProcess, now + 1)
        IN  /\ hierarchyData' = newTree
            /\ added' = MapSet(added, processId, [path |-> newPath, data |-> <<>>])
            /\ changeHistory' = h.changeHistory
            /\ historyIndex' = h.historyIndex
            /\ now' = now + 1
            /\ searchIndex' = updateSearchIndex(newTree)
            /\ lastOp' = IF refreshThrows
                         THEN AddFailure("Failed to add process.")
                         ELSE AddSuccess(name, level, processId)
            /\ UNCHANGED << originalHierarchyData, modified, deleted >>

\* ------------------------------------------------------------ saveProcess
\* the object saveProcess builds from the edit form
FormData(processId, name, d) ==
    LET level == LevelOfId(processId) IN
    IF level = "L3"
    THEN [name |-> name, level |-> level, objective |-> d.objective,
          use_case |-> d.use_case, it_release |-> d.it_release]
    ELSE [name |-> name, level |-> level]

\* updateProcessInHierarchy: the tree after updateNode(hierarchyData); both of
\* its branches assign newData to the first node whose id is processId
updateProcessInHierarchy(root, processId, newData) ==
    LET p == FindPathById(root, processId)
    IN  IF p = <<>> THEN root
        ELSE ReplaceAt(root, p, ObjectAssign(NodeAt(root, p), newData))

\* saveProcess writing the form into the node of the baseline as well, as it
\* would if the working tree and the baseline shared their nodes
saveProcess_WritesBaseline(processId, name, d) ==
    IF name = "" THEN
        /\ lastOp' = [op |-> "saveProcess", saved |-> FALSE]
        /\ UNCHANGED << hierarchyData, originalHierarchyData, modified, added,
                        deleted, changeHistory, historyIndex, searchIndex, now >>
    ELSE
        LET processData == FormData(processId, name, d)
            isAdded     == processId \in DOMAIN added
            newTree     == updateProcessInHierarchy(hierarchyData, processId,
                                                    processData)
            h           == addToHistory(changeHistory, historyIndex, "modify",
                                        processId, processData, now + 1)
        IN  /\ added' = IF isAdded
                        THEN MapSet(added, processId,
                                    [path |-> <<>>, data |-> processData])
                        ELSE added
            /\ modified' = IF isAdded THEN modified
                           ELSE MapSet(modified, processId, processData)
            /\ hierarchyData' = newTree
            /\ searchIndex' = updateSearchIndex(newTree)
            /\ changeHistory' = h.changeHistory
            /\ historyIndex' = h.historyIndex
            /\ now' = now + 1
            /\ lastOp' = [op |-> "saveProcess", processId |-> processId,
                          name |-> name, saved |-> TRUE]
            /\ originalHierarchyData' =
                  updateProcessInHierarchy(originalHierarchyData, processId,
                                           processData)
            /\ UNCHANGED deleted

\* saveProcess(event, processId) with the form holding name and d
saveProcess(processId, name, d) ==
    IF name = "" THEN
        /\ lastOp' = [op |-> "saveProcess", saved |-> FALSE]
        /\ UNCHANGED << hierarchyData, originalHierarchyData, modified, added,
                        deleted, changeHistory, historyIndex, searchIndex, now >>
    ELSE
        LET processData == FormData(processId, name, d)
            isAdded     == processId \in DOMAIN added
            newTree     == updateProcessInHierarchy(hierarchyData, processId,
                                                    processData)
            h           == addToHistory(changeHistory, historyIndex, "modify",
                                        processId, processData, now + 1)
        IN  /\ added' = IF isAdded
                        THEN MapSet(added, processId,
                                    [path |-> <<>>, data |-> processData])
                        ELSE added
            /\ modified' = IF isAdded THEN modified
                           ELSE MapSet(modified, processId, processData)
            /\ hierarchyData' = newTree
            /\ searchIndex' = updateSearchIndex(newTree)
            /\ changeHistory' = h.changeHistory
            /\ historyIndex' = h.historyIndex
            /\ now' = now + 1
            /\ lastOp' = [op |-> "saveProcess", processId |-> processId,
                          name |-> name, saved |-> TRUE]
            /\ UNCHANGED << originalHierarchyData, deleted >>

\* ------------------------------------------------------------ deleteProcess
DeleteResult(processId, result, childCount) ==
    [op |-> "deleteProcess", processId |-> processId, result |-> result,
     childCount |-> childCount]

DeleteRefused(result) == [op |-> "deleteProcess", result |-> result]

\* deleteProcess(processId); confirmed: the answer to the confirm() prompt
deleteProcess(processId, confirmed) ==
    LET processData == findProcessById(hierarchyData, added, processId) IN
    IF processData = NoProcess THEN
        /\ lastOp' = DeleteRefused("not found")
        /\ UNCHANGED << hierarchyData, originalHierarchyData, modified, added,
                        deleted, changeHistory, historyIndex, searchIndex, now >>
    ELSE IF ~confirmed THEN
        /\ lastOp' = DeleteRefused("cancelled")
        /\ UNCHANGED << hierarchyData, originalHierarchyData, modified, added,
                        deleted, changeHistory, historyIndex, searchIndex, now >>
    ELSE
        LET marked == SubtreeIds(processData)
            h      == addToHistory(changeHistory, historyIndex, "delete",
                                   processId, processData, now + 1)
        IN  /\ deleted' = deleted \cup marked
            /\ added' = MapDeleteAll(added, marked)
            /\ modified' = MapDeleteAll(modified, marked)
            /\ changeHistory' = h.changeHistory
            /\ historyIndex' = h.historyIndex
            /\ now' = now + 1
            /\ lastOp' = DeleteResult(processId, "deleted", countChildren(processData))
            /\ UNCHANGED << hierarchyData, originalHierarchyData, searchIndex >>

\* ------------------------------------------------------------ undo / redo
\* undoChange without its guard
undoChange_NoGuard ==
    /\ historyIndex' = historyIndex - 1
    /\ lastOp' = [op |-> "undoChange", moved |-> TRUE]
    /\ UNCHANGED << hierarchyData, originalHierarchyData, modified, added,
                    deleted, changeHistory, searchIndex, now >>

undoChange ==
    IF historyIndex < 0 THEN
        /\ lastOp' = [op |-> "undoChange", moved |-> FALSE]
        /\ UNCHANGED << hierarchyData, originalHierarchyData, modified, added,
                        deleted, changeHistory, historyIndex, searchIndex, now >>
    ELSE
        /\ historyIndex' = historyIndex - 1
        /\ lastOp' = [op |-> "undoChange", moved |-> TRUE]
        /\ UNCHANGED << hierarchyData, originalHierarchyData, modified, added,
                        deleted, changeHistory, searchIndex, now >>

\* redoChange taking the entry it steps onto out of the log
redoChange_ConsumesEntry ==
    IF historyIndex >= Len(changeHistory) - 1 THEN
        /\ lastOp' = [op |-> "redoChange", moved |-> FALSE]
        /\ UNCHANGED << hierarchyData, originalHierarchyData, modified, added,
                        deleted, changeHistory, historyIndex, searchIndex, now >>
    ELSE
        /\ historyIndex' = historyIndex + 1
        /\ changeHistory' = SubSeq(changeHistory, 1, historyIndex + 1)
                               \o SubSeq(changeHistory, historyIndex + 3,
                                         Len(changeHistory))
        /\ lastOp' = [op |-> "redoChange", moved |-> TRUE]
        /\ UNCHANGED << hierarchyData, originalHierarchyData, modified, added,
                        deleted, searchIndex, now >>

redoChange ==
    IF historyIndex >= Len(changeHistory) - 1 THEN
        /\ lastOp' = [op |-> "redoChange", moved |-> FALSE]
        /\ UNCHANGED << hierarchyData, originalHierarchyData, modified, added,
                        deleted, changeHistory, historyIndex, searchIndex, now >>
    ELSE
        /\ historyIndex' = historyIndex + 1
        /\ lastOp' = [op |-> "redoChange", moved |-> TRUE]
        /\ UNCHANGED << hierarchyData, originalHierarchyData, modified, added,
                        deleted, changeHistory, searchIndex, now >>

\* ------------------------------------------------------------ discard
\* discardAllChanges leaving the search index as it is
discardAllChanges_KeepsIndex(confirmed) ==
    IF ~confirmed THEN
        /\ lastOp' = [op |-> "discardAllChanges", discarded |-> FALSE]
        /\ UNCHANGED << hierarchyData, originalHierarchyData, modified, added,
                        deleted, changeHistory, historyIndex, searchIndex, now >>
    ELSE
        /\ hierarchyData' = originalHierarchyData
        /\ modified' = EmptyMap
        /\ added' = EmptyMap
        /\ deleted' = {}
        /\ changeHistory' = <<>>
        /\ historyIndex' = -1
        /\ lastOp' = [op |-> "discardAllChanges", discarded |-> TRUE]
        /\ UNCHANGED << originalHierarchyData, searchIndex, now >>

\* discardAllChanges(); confirmed: the answer to the confirm() prompt
discardAllChanges(confirmed) ==
    IF ~confirmed THEN
        /\ lastOp' = [op |-> "discardAllChanges", discarded |-> FALSE]
        /\ UNCHANGED << hierarchyData, originalHierarchyData, modified, added,
                        deleted, changeHistory, historyIndex, searchIndex, now >>
    ELSE
        /\ hierarchyData' = originalHierarchyData
        /\ modified' = EmptyMap
        /\ added' = EmptyMap
        /\ deleted' = {}
        /\ changeHistory' = <<>>
        /\ historyIndex' = -1
        /\ searchIndex' = updateSearchIndex(originalHierarchyData)
        /\ lastOp' = [op |-> "discardAllChanges", discarded |-> TRUE]
        /\ UNCHANGED << originalHierarchyData, now >>

\* ------------------------------------------------------------ export
\* one spreadsheet row; the columns 'L1 Process Name', 'L2 Process Name',
\* 'L3 Process Name', 'L3 Process Objective', 'Use Case Mapping', 'IT Release'
SheetRow(l1, l2, l3, objective, use_case, it_release) ==
    [l1 |-> l1, l2 |-> l2, l3 |-> l3, objective |-> objective,
     use_case |-> use_case, it_release |-> it_release]

\* node[field] || ''
FieldOr(node, field) == IF field \in DOMAIN node THEN node[field] ELSE ""

\* flattenHierarchy(node, l1Name, l2Name): the rows pushed for one node.  The
\* walk is driven by node.level: an L1 node hands its name down as l1Name, an
\* L2 node as l2Name, an L3 node pushes a row unless its id is in the deleted
\* set, and a node of any other level is passed over with its children.
RECURSIVE flattenNode(_, _, _, _)
flattenNode(node, l1Name, l2Name, deletedIds) ==
    LET level == FieldOr(node, "level")
        kids  == IF HasChildren(node) THEN node.children ELSE <<>>
    IN  IF level = "L1" THEN
            Flatten([i \in 1..Len(kids) |->
                        flattenNode(kids[i], node.name, l2Name, deletedIds)])
        ELSE IF level = "L2" THEN
            Flatten([i \in 1..Len(kids) |->
                        flattenNode(kids[i], l1Name, node.name, deletedIds)])
        ELSE IF level = "L3" /\ getProcessId(node) \notin deletedIds THEN
            << SheetRow(l1Name, l2Name, node.name, FieldOr(node, "objective"),
                        FieldOr(node, "use_case"), FieldOr(node, "it_release")) >>
        ELSE <<>>

\* the rows of exportToExcel with every L3 node exported, deleted or not
flattenHierarchy_IgnoresDeleted(root, deletedIds) ==
    Flatten([i \in 1..Len(root.children) |->
                flattenNode(root.children[i], "", "", {})])

\* the rows exportToExcel collects: flattenHierarchy(child) for every
\* top-level child of window.hierarchyData
flattenHierarchy(root, deletedIds) ==
    Flatten([i \in 1..Len(root.children) |->
                flattenNode(root.children[i], "", "", deletedIds)])

\* exportToExcel leaving the deleted set as it is
exportToExcel_KeepsDeleted(writeFails) ==
    /\ ~writeFails
    /\ modified' = EmptyMap
    /\ added' = EmptyMap
    /\ changeHistory' = <<>>
    /\ historyIndex' = -1
    /\ lastOp' = [op |-> "exportToExcel", success |-> TRUE,
                  rows |-> flattenHierarchy(hierarchyData, deleted)]
    /\ UNCHANGED << hierarchyData, originalHierarchyData, deleted, searchIndex,
                    now >>

\* exportToExcel(); writeFails: XLSX.writeFile throws
exportToExcel(writeFails) ==
    IF writeFails THEN
        /\ lastOp' = [op |-> "exportToExcel", success |-> FALSE]
        /\ UNCHANGED << hierarchyData, originalHierarchyData, modified, added,
                        deleted, changeHistory, historyIndex, searchIndex, now >>
    ELSE
        /\ modified' = EmptyMap
        /\ added' = EmptyMap
        /\ deleted' = {}
        /\ changeHistory' = <<>>
        /\ historyIndex' = -1
        /\ lastOp' = [op |-> "exportToExcel", success |-> TRUE,
                      rows |-> flattenHierarchy(hierarchyData, deleted)]
        /\ UNCHANGED << hierarchyData, originalHierarchyData, searchIndex, now >>

\* ------------------------------------------------------------ import
\* a cell the sheet does not have
NoCell == ""

\* the rows -> tree conversion of importFromExcel; l1Map and l2Map map the
\* keys seen so far to the node created for them
RECURSIVE importRows(_, _, _, _)
importRows(rows, tree, l1Map, l2Map) ==
    IF rows = <<>> THEN tree
    ELSE
      LET row == Head(rows) IN
      IF row.l1 = "" \/ row.l2 = "" \/ row.l3 = ""
      THEN importRows(Tail(rows), tree, l1Map, l2Map)
      ELSE
        LET hasL1  == row.l1 \in DOMAIN l1Map
            tree1  == IF hasL1 THEN tree
                      ELSE PushChild(tree, <<>>,
                               [name |-> row.l1, level |-> "L1", children |-> <<>>])
            l1Path == IF hasL1 THEN l1Map[row.l1] ELSE << Len(tree1.children) >>
            l2Key  == row.l1 \o "_" \o row.l2
            hasL2  == l2Key \in DOMAIN l2Map
            tree2  == IF hasL2 THEN tree1
                      ELSE PushChild(tree1, l1Path,
                               [name |-> row.l2, level |-> "L2", children |-> <<>>])
            l2Path == IF hasL2 THEN l2Map[l2Key]
                      ELSE Append(l1Path, Len(NodeAt(tree2, l1Path).children))
            tree3  == PushChild(tree2, l2Path,
                          [name |-> row.l3, level |-> "L3",
                           objective |-> row.objective,
                           use_case |-> row.use_case,
                           it_release |-> row.it_release])
        IN  importRows(Tail(rows), tree3, MapSet(l1Map, row.l1, l1Path),
                       MapSet(l2Map, l2Key, l2Path))

\* the hierarchy importFromExcel builds from the sheet's rows
ImportedHierarchy(jsonData) ==
    importRows(jsonData, [name |-> "Process Hierarchy", children |-> <<>>],
               EmptyMap, EmptyMap)

\* the validation of importFromExcel: the error thrown, "" when the sheet passes
ImportValidationError(jsonData) ==
    IF jsonData = <<>> THEN "Excel file is empty"
    ELSE IF \/ jsonData[1].l1 = NoCell
            \/ jsonData[1].l2 = NoCell
            \/ jsonData[1].l3 = NoCell
        THEN "Excel file must contain columns: L1 Process Name, L2 Process Name, L3 Process Name"
    ELSE ""

\* importFromExcel dropping the pending change set before it validates
importFromExcel_ClearsFirst(jsonData, confirmed) ==
    /\ modified' = EmptyMap
    /\ added' = EmptyMap
    /\ deleted' = {}
    /\ lastOp' = [op |-> "importFromExcel", imported |-> FALSE,
                  error |-> ImportValidationError(jsonData)]
    /\ UNCHANGED << hierarchyData, originalHierarchyData, changeHistory,
                    historyIndex, searchIndex, now >>

\* importFromExcel's reader.onload with the sheet read as jsonData;
\* confirmed: the answer to the confirm() prompt
importFromExcel(jsonData, confirmed) ==
    LET error == ImportValidationError(jsonData) IN
    IF error # "" \/ ~confirmed THEN
        /\ lastOp' = [op |-> "importFromExcel", imported |-> FALSE,
                      error |-> error]
        /\ UNCHANGED << hierarchyData, originalHierarchyData, modified, added,
                        deleted, changeHistory, historyIndex, searchIndex, now >>
    ELSE
        LET newHierarchy == ImportedHierarchy(jsonData) IN
        /\ hierarchyData' = newHierarchy
        /\ originalHierarchyData' = newHierarchy
        /\ modified' = EmptyMap
        /\ added' = EmptyMap
        /\ deleted' = {}
        /\ changeHistory' = <<>>
        /\ historyIndex' = -1
        /\ searchIndex' = updateSearchIndex(newHierarchy)
        /\ lastOp' = [op |-> "importFromExcel", imported |-> TRUE,
                      jsonData |-> jsonData]
        /\ UNCHANGED now

\* ------------------------------------------------------------ inputs
NoDetails == [objective |-> "", use_case |-> "", it_release |-> ""]

\* the detail fields a form of that level carries
DetailsFor(level) == IF level = "L3" THEN Details ELSE {NoDetails}

\* parent names typed into the add form
ParentNames == {"", "Billing", "Meter Reading", "A"}

\* the sheets offered for import
ImportSheets ==
    { <<>>,
      << SheetRow("Billing", "Meter Reading", NoCell, "", "", "") >>,
      << SheetRow("Billing", "Meter Reading", "A", "o", "Use Case 13", "IT Release 2") >> }

\* the ids the edit form can be opened for: openDetailsForEdit renders the
\* form for the object findProcessById returns, under that object's id
FormIds ==
    { getProcessId(NodeAt(hierarchyData, p)) : p \in Range(NodePaths(hierarchyData)) }
    \cup { getProcessId(AddedObject(hierarchyData, added[k])) : k \in DOMAIN added }

\* ------------------------------------------------------------ specification
AddStep(names) ==
    \E name \in names \cup {""}, level \in Levels \cup {""},
       parentName \in ParentNames, refreshThrows \in BOOLEAN :
       \E d \in DetailsFor(level) :
          addProcess(name, level, parentName, d, refreshThrows)

SaveStep(names) ==
    \E processId \in FormIds, name \in names \cup {""} :
       \E d \in DetailsFor(LevelOfId(processId)) :
          saveProcess(processId, name, d)

DeleteStep ==
    \E processId \in FormIds \cup {"L3_A"}, confirmed \in BOOLEAN :
       deleteProcess(processId, confirmed)

UndoStep == undoChange

RedoStep == redoChange

DiscardStep == \E confirmed \in BOOLEAN : discardAllChanges(confirmed)

ExportStep == \E writeFails \in BOOLEAN : exportToExcel(writeFails)

ImportStep ==
    \E jsonData \in ImportSheets, confirmed \in BOOLEAN :
        importFromExcel(jsonData, confirmed)

\* The full specification: every handler, at most MaxEdits committed edits.
Next ==
    \/ now < MaxEdits /\ AddStep(FewNames)
    \/ now < MaxEdits /\ SaveStep(FewNames)
    \/ now < MaxEdits /\ DeleteStep
    \/ UndoStep
    \/ RedoStep
    \/ DiscardStep
    \/ ExportStep
    \/ ImportStep

Spec == Init /\ [][Next]_vars

\* The edit specification: the editing handlers alone, with colliding names
\* and more edits in a row.
NextEdits ==
    \/ now < MaxDeepEdits /\ AddStep(Names)
    \/ now < MaxDeepEdits /\ SaveStep(Names)
    \/ now < MaxDeepEdits /\ DeleteStep
    \/ UndoStep
    \/ RedoStep

SpecEdits == Init /\ [][NextEdits]_vars

\* The history specification: the same handlers, driven far enough to fill
\* the log.  Every edit re-saves the loaded L3 process with the same form
\* contents, and undoChange runs only once MAX_HISTORY + 5 edits have been
\* committed one after the other, so that the full log stays within reach
\* of the search.
HistoryEditStep ==
    /\ now < MaxHistoryEdits
    /\ saveProcess("L3_Collect Reads", "Collect Reads", NoDetails)

HistoryUndoStep ==
    /\ now >= MAX_HISTORY + 5
    /\ undoChange

HistoryRedoStep == redoChange

NextHistory ==
    \/ HistoryEditStep
    \/ HistoryUndoStep
    \/ HistoryRedoStep

SpecHistory == Init /\ [][NextHistory]_vars

\* The sheet specification: spreadsheets with "_" in their L1 and L2 names
\* are imported, the imported processes are renamed and deleted, the tree is
\* exported, and the exported rows are imported back.
SheetNamesL1 == {"A", "A_B"}

SheetNamesL2 == {"C", "Billing"}

\* the two-row sheets over those names
RoundTripSheets ==
    LET rows == { SheetRow(l1, l2, l3, "o", "Use Case 13", "IT Release 2") :
                    l1 \in SheetNamesL1, l2 \in SheetNamesL2, l3 \in FewNames }
    IN  { << r1, r2 >> : r1 \in rows, r2 \in rows }

SheetImportStep ==
    \E jsonData \in RoundTripSheets : importFromExcel(jsonData, TRUE)

\* the file exportToExcel has just written is chosen in the import dialog
ReimportStep ==
    /\ lastOp.op = "exportToExcel"
    /\ lastOp.success
    /\ importFromExcel(lastOp.rows, TRUE)

NextSheets ==
    \/ SheetImportStep
    \/ now < MaxSheetEdits /\ SaveStep({"B_C"})
    \/ now < MaxSheetEdits /\ DeleteStep
    \/ ExportStep
    \/ ReimportStep

SpecSheets == Init /\ [][NextSheets]_vars

\* ------------------------------------------------------------ flow layout
\* useFlowLayout (lib/useFlowLayout.js and its typed variant).  The layout
\* library is a collaborator: ELK.layout returns one edge per edge it was
\* given, in the same order and under the same id, and for each of them it
\* may have swapped sources and targets and may have dropped the _original
\* property.  Node placement and routing points do not bear on the edges'
\* ends and are left out.
FlowNodeIds == {"a", "b"}

\* the ids of the edges handed to useFlowLayout: the i-th has id "e<i>"
EdgeIds == << "e1", "e2", "e3", "e4" >>

\* the edges of the graph being drawn up
FlowGraph == IF lastOp.op = "graph" THEN lastOp.flowEdges ELSE <<>>

\* convertToELKGraph: the edges of the ELK graph
convertToELKGraph(flowEdges) ==
    [i \in 1..Len(flowEdges) |->
        [id |-> flowEdges[i].id, sources |-> << flowEdges[i].source >>,
         targets |-> << flowEdges[i].target >>, original |-> flowEdges[i]]]

\* what ELK.layout may return for one edge
LaidOutEdge(elkEdge) ==
    LET swapped == [elkEdge EXCEPT !.sources = elkEdge.targets,
                                   !.targets = elkEdge.sources]
        drop(e) == [id |-> e.id, sources |-> e.sources, targets |-> e.targets]
    IN  { elkEdge, swapped, drop(elkEdge), drop(swapped) }

\* what ELK.layout may return for the edges of a graph
LaidOutEdges(elkEdges) ==
    { out \in [1..Len(elkEdges) -> UNION { LaidOutEdge(elkEdges[i]) :
                                              i \in 1..Len(elkEdges) }] :
        \A i \in 1..Len(elkEdges) : out[i] \in LaidOutEdge(elkEdges[i]) }

\* flowEdges.find(pred), given the edges satisfying pred in the order of
\* flowEdges: the first of them, NoProcess if there is none
FindEdge(hits) == IF hits = <<>> THEN NoProcess ELSE Head(hits)

\* the positioned edges of lib/useFlowLayout.js: the original edge is
\* elkEdge._original, else the first input edge between the same two nodes in
\* either direction, else a fallback built from the ELK edge; source and
\* target are taken from the original edge
useFlowLayout(flowEdges, laidOut) ==
    [i \in 1..Len(laidOut) |->
        LET elkEdge  == laidOut[i]
            s        == elkEdge.sources[1]
            t        == elkEdge.targets[1]
            found    == IF "original" \in DOMAIN elkEdge THEN elkEdge.original
                        ELSE FindEdge(SelectSeq(flowEdges,
                                 LAMBDA e : \/ e.source = s /\ e.target = t
                                            \/ e.source = t /\ e.target = s))
            originalEdge == IF found = NoProcess
                            THEN [source |-> s, target |-> t, label |-> "",
                                  id |-> elkEdge.id]
                            ELSE found
        IN  [originalEdge EXCEPT !.source = originalEdge.source,
                                 !.target = originalEdge.target]]

\* the positioned edges of the typed variant: the original edge is
\* elkEdge._original, else the first input edge with the same source and
\* target; source and target are taken from the ELK edge
useFlowLayoutTyped(flowEdges, laidOut) ==
    [i \in 1..Len(laidOut) |->
        LET elkEdge  == laidOut[i]
            s        == elkEdge.sources[1]
            t        == elkEdge.targets[1]
            found    == IF "original" \in DOMAIN elkEdge THEN elkEdge.original
                        ELSE FindEdge(SelectSeq(flowEdges,
                                 LAMBDA e : e.source = s /\ e.target = t))
            originalEdge == IF found = NoProcess THEN << >> ELSE found
        IN  ObjectAssign(originalEdge, [source |-> s, target |-> t])]

\* the nodes handed to useFlowLayout; the second has no label of its own
FlowNodes ==
    << [id |-> "a", label |-> "Meter Data Management"],
       [id |-> "b", label |-> ""] >>

\* Math.max(a, b)
Max(a, b) == IF a >= b THEN a ELSE b

\* calculateNodeDimensions: the size estimated from the length of the label
calculateNodeDimensions(node) ==
    LET label == IF node.label # "" THEN node.label ELSE node.id
        minWidth == 120
        minHeight == 50
        charWidth == 8
        lineHeight == 20
        padding == 20
    IN  [width |-> Max(minWidth, Len(label) * charWidth + padding),
         height |-> Max(minHeight, lineHeight + padding)]

\* the nodes of useFlowLayout with their estimated size
nodesWithDimensions(flowNodes) ==
    [i \in 1..Len(flowNodes) |->
        ObjectAssign(flowNodes[i], calculateNodeDimensions(flowNodes[i]))]

\* the nodes of the ELK graph convertToELKGraph of lib/useFlowLayout.js
\* builds: every box is 150 by 60
elkNodes(flowNodes) ==
    [i \in 1..Len(flowNodes) |->
        [id |-> flowNodes[i].id, width |-> 150, height |-> 60,
         original |-> flowNodes[i]]]

\* the nodes of the ELK graph of the typed variant: the box is the size the
\* node carries, 150 by 60 when it carries none
elkNodesTyped(flowNodes) ==
    [i \in 1..Len(flowNodes) |->
        [id |-> flowNodes[i].id,
         width |-> IF "width" \in DOMAIN flowNodes[i] /\ flowNodes[i].width # 0
                   THEN flowNodes[i].width ELSE 150,
         height |-> IF "height" \in DOMAIN flowNodes[i] /\ flowNodes[i].height # 0
                    THEN flowNodes[i].height ELSE 60,
         original |-> flowNodes[i]]]

\* an edge is added to the graph
AddEdgeStep ==
    /\ Len(FlowGraph) < MaxFlowEdges
    /\ \E source \in FlowNodeIds, target \in FlowNodeIds :
          lastOp' = [op |-> "graph",
                     flowEdges |-> Append(FlowGraph,
                         [source |-> source, target |-> target, label |-> "",
                          id |-> EdgeIds[Len(FlowGraph) + 1]])]
    /\ UNCHANGED << hierarchyData, originalHierarchyData, modified, added,
                    deleted, changeHistory, historyIndex, searchIndex, now >>

\* one call of useFlowLayout: the call record holds the edges given, the
\* edges the library returned and the positioned edges
LayoutStep ==
    /\ \E laidOut \in LaidOutEdges(convertToELKGraph(FlowGraph)) :
          lastOp' = [op |-> "useFlowLayout", flowEdges |-> FlowGraph,
                     flowNodes |-> FlowNodes,
                     elkNodes |-> elkNodes(nodesWithDimensions(FlowNodes)),
                     laidOut |-> laidOut,
                     edges |-> useFlowLayout(FlowGraph, laidOut)]
    /\ UNCHANGED << hierarchyData, originalHierarchyData, modified, added,
                    deleted, changeHistory, historyIndex, searchIndex, now >>

TypedLayoutStep ==
    /\ \E laidOut \in LaidOutEdges(convertToELKGraph(FlowGraph)) :
          lastOp' = [op |-> "useFlowLayoutTyped", flowEdges |-> FlowGraph,
                     flowNodes |-> FlowNodes,
                     elkNodes |-> elkNodesTyped(nodesWithDimensions(FlowNodes)),
                     laidOut |-> laidOut,
                     edges |-> useFlowLayoutTyped(FlowGraph, laidOut)]
    /\ UNCHANGED << hierarchyData, originalHierarchyData, modified, added,
                    deleted, changeHistory, historyIndex, searchIndex, now >>

NextLayout ==
    \/ AddEdgeStep
    \/ LayoutStep
    \/ TypedLayoutStep

SpecLayout == Init /\ [][NextLayout]_vars

\* ------------------------------------------------------------ filters
\* string.includes(sub)
Includes(string, sub) ==
    \E i \in 0..(Len(string) - Len(sub)) :
        SubSeq(string, i + 1, i + Len(sub)) = sub

UpperCaseLetters == "ABCDEFGHIJKLMNOPQRSTUVWXYZ"

LowerCaseLetters == "abcdefghijklmnopqrstuvwxyz"

\* the lower-case letter of every upper-case letter
LowerCaseOf ==
    [c \in { SubSeq(UpperCaseLetters, i, i) : i \in 1..26 } |->
        LET i == CHOOSE i \in 1..26 : SubSeq(UpperCaseLetters, i, i) = c
        IN  SubSeq(LowerCaseLetters, i, i)]

\* string.toLowerCase()
RECURSIVE toLowerCase(_)
toLowerCase(string) ==
    IF string = "" THEN ""
    ELSE LET c == Head(string)
         IN  (IF c \in DOMAIN LowerCaseOf THEN LowerCaseOf[c] ELSE c)
                \o toLowerCase(Tail(string))

\* the character class \d, at position i of a string (FALSE past its end)
DigitAt(string, i) ==
    /\ i <= Len(string)
    /\ SubSeq(string, i, i) \in {"0", "1", "2", "3", "4", "5", "6", "7", "8", "9"}

\* the match of (\d+) starting at position i: the longest run of digits
RECURSIVE DigitsFrom(_, _)
DigitsFrom(string, i) ==
    IF DigitAt(string, i)
    THEN SubSeq(string, i, i) \o DigitsFrom(string, i + 1)
    ELSE ""

\* filterLower.match(/use case (\d+)/): the captured number of the first
\* match, "" when there is none
UseCaseNumber(filterLower) ==
    LET prefix == "use case "
        starts == { i \in 1..Len(filterLower) :
                      /\ i + Len(prefix) <= Len(filterLower)
                      /\ SubSeq(filterLower, i, i + Len(prefix) - 1) = prefix
                      /\ DigitAt(filterLower, i + Len(prefix)) }
    IN  IF starts = {} THEN ""
        ELSE LET first == CHOOSE i \in starts : \A j \in starts : i <= j
             IN  DigitsFrom(filterLower, first + Len(prefix))

\* new RegExp(head + "\\s*" + number + "(?!\\d)", 'i').test(field) on the
\* lower-cased field, with spaces standing for the white space class;
\* maxSpaces = 0 drops the \s*
TestPattern(lower, head, maxSpaces, number) ==
    \E i \in 1..(Len(lower) - Len(head) - Len(number) + 1) :
        /\ SubSeq(lower, i, i + Len(head) - 1) = head
        /\ \E k \in 0..maxSpaces :
              LET afterSpaces == i + Len(head) + k
                  afterNumber == afterSpaces + Len(number)
              IN  /\ afterNumber - 1 <= Len(lower)
                  /\ \A j \in (i + Len(head))..(afterSpaces - 1) :
                        SubSeq(lower, j, j) = " "
                  /\ SubSeq(lower, afterSpaces, afterNumber - 1) = number
                  /\ ~DigitAt(lower, afterNumber)

\* matchesUseCase with the "Use Case X" branch left out: the fallback
\* substring test alone
matchesUseCase_Substring(useCaseField, filterValue) ==
    /\ useCaseField # ""
    /\ Includes(toLowerCase(useCaseField), toLowerCase(filterValue))

\* matchesUseCase(useCaseField, filterValue)
matchesUseCase(useCaseField, filterValue) ==
    LET useCaseLower == toLowerCase(useCaseField)
        filterLower  == toLowerCase(filterValue)
        filterNumber == UseCaseNumber(filterLower)
    IN  IF useCaseField = "" THEN FALSE
        ELSE IF Includes(filterLower, "foundational") THEN
            /\ Includes(useCaseLower, "foundational")
            /\ Includes(useCaseLower, "not directly mapped to sce use case")
        ELSE IF filterNumber # "" THEN
            \/ TestPattern(useCaseLower, "use case ", 0, filterNumber)
            \/ TestPattern(useCaseLower, "uc", Len(useCaseLower), filterNumber)
        ELSE Includes(useCaseLower, filterLower)

\* the test filterNode applies to an L3 node; kind is "it" inside
\* filterHierarchyByITRelease and "uc" inside filterHierarchyByUseCase
L3Matches(node, kind, value) ==
    IF kind = "it" THEN Includes(FieldOr(node, "it_release"), value)
    ELSE matchesUseCase(FieldOr(node, "use_case"), value)

\* filterNode keeping L1 and L2 nodes whose children were all filtered out
RECURSIVE filterNode_KeepsParents(_, _, _)
filterNode_KeepsParents(node, kind, value) ==
    IF FieldOr(node, "level") = "L3" THEN
        IF L3Matches(node, kind, value) THEN node ELSE NoProcess
    ELSE IF HasChildren(node) THEN
        LET mapped == [i \in 1..Len(node.children) |->
                          filterNode_KeepsParents(node.children[i], kind, value)]
        IN  [node EXCEPT !.children = SelectSeq(mapped, LAMBDA c : c # NoProcess)]
    ELSE node

\* filterNode copying only the name and the level of the L3 nodes it keeps
RECURSIVE filterNode_StripsDetails(_, _, _)
filterNode_StripsDetails(node, kind, value) ==
    IF FieldOr(node, "level") = "L3" THEN
        IF L3Matches(node, kind, value)
        THEN [name |-> node.name, level |-> node.level]
        ELSE NoProcess
    ELSE IF HasChildren(node) /\ Len(node.children) > 0 THEN
        LET mapped == [i \in 1..Len(node.children) |->
                          filterNode_StripsDetails(node.children[i], kind, value)]
            filteredChildren == SelectSeq(mapped, LAMBDA c : c # NoProcess)
        IN  IF Len(filteredChildren) > 0
            THEN [node EXCEPT !.children = filteredChildren]
            ELSE NoProcess
    ELSE NoProcess

\* filterNode(node): the filtered copy of the node, NoProcess for null
RECURSIVE filterNode(_, _, _)
filterNode(node, kind, value) ==
    IF FieldOr(node, "level") = "L3" THEN
        IF L3Matches(node, kind, value) THEN node ELSE NoProcess
    ELSE IF HasChildren(node) /\ Len(node.children) > 0 THEN
        LET mapped == [i \in 1..Len(node.children) |->
                          filterNode(node.children[i], kind, value)]
            filteredChildren == SelectSeq(mapped, LAMBDA c : c # NoProcess)
        IN  IF Len(filteredChildren) > 0
            THEN [node EXCEPT !.children = filteredChildren]
            ELSE NoProcess
    ELSE NoProcess

\* the body of the filter functions returning null when nothing matches
FilterBy_NullWhenEmpty(data, kind, value) ==
    IF value = "" \/ value = "All" THEN data
    ELSE LET filteredData == filterNode(data, kind, value) IN
         IF \/ filteredData = NoProcess
            \/ ~HasChildren(filteredData)
            \/ Len(filteredData.children) = 0
         THEN NoProcess
         ELSE filteredData

\* the body the two filter functions share
FilterBy(data, kind, value) ==
    IF value = "" \/ value = "All" THEN data
    ELSE LET filteredData == filterNode(data, kind, value) IN
         IF \/ filteredData = NoProcess
            \/ ~HasChildren(filteredData)
            \/ Len(filteredData.children) = 0
         THEN [name |-> IF FieldOr(data, "name") # "" THEN data.name
                        ELSE "Process Hierarchy",
               children |-> <<>>]
         ELSE filteredData

filterHierarchyByITRelease(data, releaseValue) == FilterBy(data, "it", releaseValue)

filterHierarchyByUseCase(data, useCaseValue) == FilterBy(data, "uc", useCaseValue)

\* filterHierarchy(data, itReleaseValue, useCaseValue)
filterHierarchy(data, itReleaseValue, useCaseValue) ==
    LET byRelease == IF itReleaseValue # "" /\ itReleaseValue # "All"
                     THEN filterHierarchyByITRelease(data, itReleaseValue)
                     ELSE data
    IN  IF useCaseValue # "" /\ useCaseValue # "All"
        THEN filterHierarchyByUseCase(byRelease, useCaseValue)
        ELSE byRelease

\* the values of the two filter drop-downs; "" and "All" switch a filter off
ReleaseValues == {"", "All", "IT Release 1", "IT Release 2"}

UseCaseValues == {"", "All", "Use Case 1", "Use Case 13"}

\* the detail fields typed into the forms of the filter specification (the
\* dash of the use case titles is written "-")
FilterDetails ==
    [objective : {"o"},
     use_case : {"", "Use Case 1 - Meter-to-Cash",
                 "Use Case 13 - Post Event Analysis", "UC1, uc  13"},
     it_release : {"IT Release 1", "IT Release 2"}]

\* the filters are applied to the working tree (switchView and the filter
\* drop-downs); the call record holds the tree, the values and the result
FilterStep ==
    /\ \E itReleaseValue \in ReleaseValues, useCaseValue \in UseCaseValues :
          lastOp' = [op |-> "filterHierarchy", data |-> hierarchyData,
                     itReleaseValue |-> itReleaseValue,
                     useCaseValue |-> useCaseValue,
                     result |-> filterHierarchy(hierarchyData, itReleaseValue,
                                                useCaseValue)]
    /\ UNCHANGED << hierarchyData, originalHierarchyData, modified, added,
                    deleted, changeHistory, historyIndex, searchIndex, now >>

\* the filters are applied once more, with the same values, to the tree the
\* last call returned
RefilterStep ==
    /\ lastOp.op = "filterHierarchy"
    /\ lastOp' = [lastOp EXCEPT
                    !.data = lastOp.result,
                    !.result = filterHierarchy(lastOp.result, lastOp.itReleaseValue,
                                               lastOp.useCaseValue)]
    /\ UNCHANGED << hierarchyData, originalHierarchyData, modified, added,
                    deleted, changeHistory, historyIndex, searchIndex, now >>

\* a sheet with two L1 processes, three L2 processes and four L3 processes
\* of different use cases and releases
FilterSheet ==
    << SheetRow("Billing", "Meter Reading", "Collect Reads", "",
                "Use Case 1 - Meter-to-Cash", "IT Release 1"),
       SheetRow("Billing", "Meter Reading", "Validate Reads", "",
                "Use Case 13 - Post Event Analysis", "IT Release 2"),
       SheetRow("Billing", "Outage", "Analyse Event", "",
                "UC1, uc  13", "IT Release 2"),
       SheetRow("Grid", "Planning", "Forecast Load", "", "", "IT Release 1") >>

\* The filter specification: the sheet is imported, L3 processes with
\* varying details are added and edited, an L1 process without children is
\* added, and the working tree is filtered.
FilterImportStep == importFromExcel(FilterSheet, TRUE)

FilterAddStep ==
    \/ \E d \in FilterDetails : addProcess("A", "L3", "Meter Reading", d, FALSE)
    \/ addProcess("A", "L1", "", NoDetails, FALSE)

FilterSaveStep ==
    \E d \in FilterDetails : saveProcess("L3_Collect Reads", "Collect Reads", d)

NextFilter ==
    \/ FilterImportStep
    \/ now < MaxFilterEdits /\ FilterAddStep
    \/ now < MaxFilterEdits /\ FilterSaveStep
    \/ FilterStep
    \/ RefilterStep

SpecFilter == Init /\ [][NextFilter]_vars

\* ------------------------------------------------------------ dependencies
\* parseDependencies (lib/parseDependencies.js and its typed variant,
\* lib/parseDependencies.ts).  The sheet is what XLSX.utils.sheet_to_json
\* returns with defval '': every row carries every column.  The sheets have
\* the target, object and category columns under their first accepted
\* header; the header of the source column varies.  l3DetailsMap is left at
\* its default, null, so enrichNode returns the node it is given.

\* cell contents: empty, a name, and a name with white space around it
Cells == {"", "a", " b"}

\* String(cell || '').trim() over those cells
Trim(cell) == IF cell = " b" THEN "b" ELSE cell

\* the rows a sheet can hold
DependencyRows ==
    [source : Cells, target : Cells, label : {"", "x"}, category : {"", "c"}]

\* headers the source column comes under: two accepted ones and another
SourceHeaders == {"Source Process (Output Creator)", "Source Process", "Source"}

\* findColumn for the source column: the header found, "" for null
findColumn(header) ==
    IF header \in {"Source Process (Output Creator)", "Source Process"}
    THEN header ELSE ""

\* category || null
NoCategory == "null"

\* the node created for a process name
FlowNode(processName, category) ==
    [id |-> processName, label |-> processName,
     group |-> IF category # "" THEN category ELSE "default", level |-> "L3"]

\* createOrUpdateNode with every call adding a node
createOrUpdateNode_AlwaysAdds(nodes, processName, category) ==
    Append(nodes, FlowNode(processName, category))

\* createOrUpdateNode(processName, category) on the node map, kept as the
\* sequence of its values in insertion order: a new name adds a node, a known
\* name takes the category if its group is still the default
createOrUpdateNode(nodes, processName, category) ==
    IF processName = "" THEN nodes
    ELSE IF \A i \in 1..Len(nodes) : nodes[i].id # processName
        THEN Append(nodes, FlowNode(processName, category))
    ELSE [i \in 1..Len(nodes) |->
            IF nodes[i].id = processName /\ category # ""
               /\ nodes[i].group = "default"
            THEN [nodes[i] EXCEPT !.group = category]
            ELSE nodes[i]]

\* the edge pushed for a row
FlowEdge(sourceProcess, targetProcess, edgeLabel, category) ==
    [source |-> sourceProcess, target |-> targetProcess, label |-> edgeLabel,
     id |-> sourceProcess \o "->" \o targetProcess \o
            (IF edgeLabel # "" THEN ":" \o edgeLabel ELSE ""),
     category |-> IF category # "" THEN category ELSE NoCategory]

\* data.forEach of lib/parseDependencies.js: a row with an empty source or
\* an empty target is skipped
RECURSIVE parseRows(_, _, _)
parseRows(data, nodes, edges) ==
    IF data = <<>> THEN [flowNodes |-> nodes, flowEdges |-> edges]
    ELSE
      LET row           == Head(data)
          sourceProcess == Trim(row.source)
          targetProcess == Trim(row.target)
          edgeLabel     == Trim(row.label)
          category      == Trim(row.category)
      IN  IF sourceProcess = "" \/ targetProcess = ""
          THEN parseRows(Tail(data), nodes, edges)
          ELSE parseRows(Tail(data),
                   createOrUpdateNode(
                       createOrUpdateNode(nodes, sourceProcess, category),
                       targetProcess, category),
                   Append(edges, FlowEdge(sourceProcess, targetProcess,
                                          edgeLabel, category)))

\* data.forEach of lib/parseDependencies.ts: a row with both ends empty is
\* skipped, a row with one end gives that node and no edge
RECURSIVE parseRowsTyped(_, _, _)
parseRowsTyped(data, nodes, edges) ==
    IF data = <<>> THEN [flowNodes |-> nodes, flowEdges |-> edges]
    ELSE
      LET row           == Head(data)
          sourceProcess == Trim(row.source)
          targetProcess == Trim(row.target)
          edgeLabel     == Trim(row.label)
          category      == Trim(row.category)
          both          == createOrUpdateNode(
                               createOrUpdateNode(nodes, sourceProcess, category),
                               targetProcess, category)
      IN  IF sourceProcess = "" /\ targetProcess = ""
          THEN parseRowsTyped(Tail(data), nodes, edges)
          ELSE IF sourceProcess = "" \/ targetProcess = ""
          THEN parseRowsTyped(Tail(data), both, edges)
          ELSE parseRowsTyped(Tail(data), both,
                   Append(edges, FlowEdge(sourceProcess, targetProcess,
                                          edgeLabel, category)))

\* the error parseDependencies throws for a sheet, "" when it accepts it
ParseError(sourceHeader, data) ==
    IF data = <<>> THEN "Excel file is empty or has no data rows."
    ELSE IF findColumn(sourceHeader) = "" THEN "Required columns not found."
    ELSE ""

\* the call record of a parse
ParseResult(op, sourceHeader, data, result) ==
    IF ParseError(sourceHeader, data) # ""
    THEN [op |-> op, error |-> ParseError(sourceHeader, data)]
    ELSE [op |-> op, error |-> "", data |-> data,
          flowNodes |-> result.flowNodes, flowEdges |-> result.flowEdges]

\* the rows of the sheet being filled in
SheetData == IF lastOp.op = "sheet" THEN lastOp.data ELSE <<>>

\* a row is added to the sheet
AppendRowStep ==
    /\ Len(SheetData) < MaxRows
    /\ \E row \in DependencyRows :
          lastOp' = [op |-> "sheet", data |-> Append(SheetData, row)]
    /\ UNCHANGED << hierarchyData, originalHierarchyData, modified, added,
                    deleted, changeHistory, historyIndex, searchIndex, now >>

\* parseDependencies(fileInput) of lib/parseDependencies.js
ParseStep ==
    /\ \E sourceHeader \in SourceHeaders :
          lastOp' = ParseResult("parseDependencies", sourceHeader, SheetData,
                                parseRows(SheetData, <<>>, <<>>))
    /\ UNCHANGED << hierarchyData, originalHierarchyData, modified, added,
                    deleted, changeHistory, historyIndex, searchIndex, now >>

\* parseDependencies(fileInput) of lib/parseDependencies.ts
TypedParseStep ==
    /\ \E sourceHeader \in SourceHeaders :
          lastOp' = ParseResult("parseDependenciesTyped", sourceHeader, SheetData,
                                parseRowsTyped(SheetData, <<>>, <<>>))
    /\ UNCHANGED << hierarchyData, originalHierarchyData, modified, added,
                    deleted, changeHistory, historyIndex, searchIndex, now >>

NextParse ==
    \/ AppendRowStep
    \/ ParseStep
    \/ TypedParseStep

SpecParse == Init /\ [][NextParse]_vars

\* ------------------------------------------------------------ properties
Last(seq) == seq[Len(seq)]

\* the node of the working tree a process id denotes (the first with that id)
TreeNodeOf(processId) ==
    NodeAt(hierarchyData, FindPathById(hierarchyData, processId))

\* C1: no process identity is in more than one of pendingChanges.modified,
\* pendingChanges.added and pendingChanges.deleted at the same time.
C1_ChangeSetsDisjoint ==
    /\ DOMAIN modified \cap DOMAIN added = {}
    /\ DOMAIN modified \cap deleted = {}
    /\ DOMAIN added \cap deleted = {}

\* C2: with no prior deletions, a confirmed deleteProcess(id) on a node with
\* k descendants in the working tree leaves exactly k+1 identities in the
\* deleted set, the target's and its descendants', none of them still in
\* added or modified.
C2_DeletionCascade ==
    [][ ( /\ lastOp'.op = "deleteProcess"
          /\ lastOp'.result = "deleted"
          /\ deleted = {}
          /\ FindPathById(hierarchyData, lastOp'.processId) # <<>> )
        => LET node == TreeNodeOf(lastOp'.processId)
               k    == countChildren(node)
           IN  /\ Cardinality(deleted') = k + 1
               /\ SubtreeIds(node) \subseteq deleted'
               /\ SubtreeIds(node) \cap (DOMAIN added' \cup DOMAIN modified') = {}
      ]_vars

\* the identities of the objects pendingChanges.added holds
AddedIdentities(root, addedMap) ==
    { getProcessId(AddedObject(root, addedMap[k])) : k \in DOMAIN addedMap }

\* C3: a node created by addProcess (a node the loaded hierarchy does not
\* have) that saveProcess edits, renames included, is still tracked by an
\* entry of added after the edit and has no entry in modified.  Stated for
\* runs without deletions and for ids that denote that node.
C3_AddedStaysAdded ==
    [][ ( /\ lastOp'.op = "saveProcess"
          /\ lastOp'.saved
          /\ deleted = {}
          /\ FindPathById(hierarchyData, lastOp'.processId) # <<>>
          /\ FindPathById(hierarchyData, lastOp'.processId)
                \notin Range(NodePaths(originalHierarchyData)) )
        => LET p     == FindPathById(hierarchyData, lastOp'.processId)
               newId == getProcessId(NodeAt(hierarchyData', p))
           IN  /\ newId \in AddedIdentities(hierarchyData', added')
               /\ newId \notin DOMAIN modified'
      ]_vars

\* C4: the log never holds more than MAX_HISTORY entries, and right after
\* MAX_HISTORY + 5 edits committed one after the other it holds the 50 most
\* recent ones in commit order (the entries stamped 6..55).  In SpecHistory
\* no undoChange runs before the 55th edit, so the state whose last handler
\* is the save that brought now to MAX_HISTORY + 5 is that state.
C4_HistoryBound ==
    /\ Len(changeHistory) <= MAX_HISTORY
    /\ (now = MAX_HISTORY + 5 /\ lastOp.op = "saveProcess")
         => /\ Len(changeHistory) = MAX_HISTORY
            /\ \A i \in 1..MAX_HISTORY : changeHistory[i].timestamp = i + 5

C4_Witness ==
    /\ now = MAX_HISTORY + 5
    /\ lastOp.op = "saveProcess"
    /\ Len(changeHistory) = MAX_HISTORY
    /\ changeHistory[1].timestamp = 6

\* C5: an edit committed while the cursor historyIndex = i is below the tail
\* of the log (i = -1 included) turns the log into its entries 0..i followed
\* by the one new entry; the entries after i are gone from the log and the
\* cursor is on the new entry, so that redoChange cannot reach them.
C5_BranchCut ==
    [][ (now' = now + 1 /\ historyIndex < Len(changeHistory) - 1)
        => /\ Len(changeHistory') = historyIndex + 2
           /\ SubSeq(changeHistory', 1, historyIndex + 1)
                 = SubSeq(changeHistory, 1, historyIndex + 1)
           /\ Last(changeHistory').timestamp = now'
           /\ historyIndex' = Len(changeHistory') - 1
           /\ \A j \in (historyIndex + 2)..Len(changeHistory) :
                 changeHistory[j] \notin Range(changeHistory')
      ]_vars

C5_Witness ==
    /\ lastOp.op = "saveProcess"
    /\ now > MAX_HISTORY + 5
    /\ Len(changeHistory) \in 2..(MAX_HISTORY - 1)
    /\ historyIndex = Len(changeHistory) - 1
    /\ Last(changeHistory).timestamp
          > changeHistory[Len(changeHistory) - 1].timestamp + 1

\* C6: -1 <= historyIndex <= changeHistory.length - 1 in every state;
\* undoChange at -1 and redoChange at the tail leave the cursor where it is,
\* otherwise undoChange lowers it and redoChange raises it by exactly 1.
C6_CursorClamped ==
    /\ [](-1 <= historyIndex /\ historyIndex <= Len(changeHistory) - 1)
    /\ [][ /\ lastOp'.op = "undoChange"
              => historyIndex' = IF historyIndex = -1 THEN historyIndex
                                 ELSE historyIndex - 1
           /\ lastOp'.op = "redoChange"
              => historyIndex' = IF historyIndex = Len(changeHistory) - 1
                                 THEN historyIndex
                                 ELSE historyIndex + 1
         ]_vars

C6_Witness ==
    /\ lastOp = [op |-> "undoChange", moved |-> FALSE]
    /\ historyIndex = -1
    /\ Len(changeHistory) = MAX_HISTORY

\* C7: a successful addProcess of an L3 node with a name no node of the tree
\* carries raises getChangeCount() by exactly 1, adds exactly one entry to
\* added and appends exactly one history entry, whose action is "add".
C7_AddCountsOnce ==
    [][ ( /\ lastOp'.op = "addProcess"
          /\ lastOp'.success
          /\ lastOp'.level = "L3"
          /\ findProcessByName(hierarchyData, lastOp'.name) = <<>> )
        => /\ MapSize(modified') + MapSize(added') + Cardinality(deleted')
                 = getChangeCount + 1
           /\ MapSize(added') = MapSize(added) + 1
           /\ Len(changeHistory') = historyIndex + 2
           /\ SubSeq(changeHistory', 1, historyIndex + 1)
                 = SubSeq(changeHistory, 1, historyIndex + 1)
           /\ Last(changeHistory').action = "add"
           /\ Last(changeHistory').processId = lastOp'.processId
      ]_vars

\* the errors the validation of addProcess returns
AddValidationErrors ==
    { "Process name and level are required.",
      "L1 processes cannot have a parent.",
      "L2 processes must have an L1 parent.",
      "L3 processes must have an L2 parent." }
    \cup { "Parent process \"" \o n \o "\" not found." : n \in ParentNames }
    \cup { "Parent process is required for " \o l \o " processes." : l \in Levels }

\* C8: a validation failure never mutates state: an addProcess that returns
\* one of the validation errors, and a saveProcess with an empty name, leave
\* the working tree, the three change collections, the history log, the
\* cursor and the search index exactly as they were.
C8_ValidationFailureNoMutation ==
    [][ ( \/ /\ lastOp'.op = "addProcess"
             /\ ~lastOp'.success
             /\ lastOp'.error \in AddValidationErrors
          \/ /\ lastOp'.op = "saveProcess"
             /\ ~lastOp'.saved )
        => UNCHANGED << hierarchyData, modified, added, deleted, changeHistory,
                        historyIndex, searchIndex >>
      ]_vars

C8_Witness ==
    /\ lastOp = AddFailure("L3 processes must have an L2 parent.")
    /\ getChangeCount > 0
    /\ changeHistory # <<>>

\* C9: whenever addProcess returns {success:false}, for a validation failure
\* or for an exception caught after the insertion, the working tree, the
\* pending change set and the history log are as before the call.
C9_AddFailureNoMutation ==
    [][ (lastOp'.op = "addProcess" /\ ~lastOp'.success)
        => UNCHANGED << hierarchyData, modified, added, deleted, changeHistory >>
      ]_vars

\* C10: after a successful exportToExcel and after a successful confirmed
\* importFromExcel, modified, added and deleted are empty, the history log
\* is empty and historyIndex = -1.
C10_CommitPointsReset ==
    ( \/ lastOp.op = "exportToExcel" /\ lastOp.success
      \/ lastOp.op = "importFromExcel" /\ lastOp.imported )
    => /\ modified = EmptyMap
       /\ added = EmptyMap
       /\ deleted = {}
       /\ changeHistory = <<>>
       /\ historyIndex = -1

\* an export that left the only L3 process out: it was in the deleted set
\* when the export ran, after at least one committed edit
C10_Witness ==
    /\ lastOp.op = "exportToExcel"
    /\ lastOp.success
    /\ lastOp.rows = <<>>
    /\ now > 0
    /\ deleted = {}

\* the L3 nodes of a tree, in document order
L3Paths(root) ==
    SelectSeq(NodePaths(root), LAMBDA p : FieldOr(NodeAt(root, p), "level") = "L3")

\* the row an L3 node stands for: the names of the nodes above it and its
\* own fields
RowOf(root, p) ==
    LET node == NodeAt(root, p) IN
    SheetRow(NodeAt(root, SubSeq(p, 1, 1)).name,
             NodeAt(root, SubSeq(p, 1, 2)).name,
             node.name, node.objective, node.use_case, node.it_release)

\* C11: a successful exportToExcel emits exactly one row per L3 node of the
\* working tree whose identity is not in the deleted set, in document order,
\* carrying the names of the node's actual L1 and L2 ancestors and its
\* objective, use case and IT release; an L3 node whose identity is in the
\* deleted set contributes no row.
C11_ExportRows ==
    [][ (lastOp'.op = "exportToExcel" /\ lastOp'.success)
        => LET live == SelectSeq(L3Paths(hierarchyData),
                          LAMBDA p : getProcessId(NodeAt(hierarchyData, p))
                                        \notin deleted)
           IN  lastOp'.rows = [i \in 1..Len(live) |-> RowOf(hierarchyData, live[i])]
      ]_vars

\* an export that left a deleted L3 node out and kept a live one
C11_Witness ==
    /\ lastOp.op = "exportToExcel"
    /\ lastOp.success
    /\ Len(lastOp.rows) >= 1
    /\ Len(lastOp.rows) < Len(L3Paths(hierarchyData))

\* the (L1, L2, L3, objective, use case, IT release) tuples of the L3 leaves
\* of a tree whose identity is not in deletedIds
LeafTuples(root, deletedIds) ==
    { RowOf(root, p) :
        p \in { q \in Range(L3Paths(root)) :
                  getProcessId(NodeAt(root, q)) \notin deletedIds } }

\* C12: round trip.  The rows exportToExcel writes for a tree T are the
\* tuples of the live L3 leaves of T, and importing those rows yields a tree
\* whose L3 leaves carry exactly that set of tuples, also when L1 and L2
\* names contain "_".
C12_RoundTrip ==
    [][ /\ (lastOp'.op = "exportToExcel" /\ lastOp'.success)
           => Range(lastOp'.rows) = LeafTuples(hierarchyData, deleted)
        /\ ( /\ lastOp.op = "exportToExcel" /\ lastOp.success
             /\ lastOp'.op = "importFromExcel" /\ lastOp'.imported
             /\ lastOp'.jsonData = lastOp.rows )
           => LeafTuples(hierarchyData', {}) = Range(lastOp.rows)
      ]_vars

\* C13: an import that fails validation (empty sheet, or a first row lacking
\* one of the three name columns) or that is declined at the confirmation
\* prompt leaves the working tree, the baseline, the pending change set, the
\* history log and the search index exactly as they were.
C13_FailedImportNoMutation ==
    [][ (lastOp'.op = "importFromExcel" /\ ~lastOp'.imported)
        => UNCHANGED << hierarchyData, originalHierarchyData, modified, added,
                        deleted, changeHistory, historyIndex, searchIndex >>
      ]_vars

\* a sheet rejected by the validation while changes are pending
C13_Witness ==
    /\ lastOp.op = "importFromExcel"
    /\ ~lastOp.imported
    /\ lastOp.error # ""
    /\ getChangeCount > 0
    /\ changeHistory # <<>>

\* the level a node has by its depth below the root
LevelAtDepth == << "L1", "L2", "L3" >>

\* every child of the root is L1, every child of an L1 is L2, every child of
\* an L2 is L3, and no L3 node has children
LevelInvariant(root) ==
    \A p \in Range(NodePaths(root)) :
        LET node == NodeAt(root, p) IN
        /\ Len(p) <= 3
        /\ FieldOr(node, "level") = LevelAtDepth[Len(p)]
        /\ (node.level = "L3" /\ HasChildren(node)) => node.children = <<>>

\* C14: the level invariant holds for the working tree in the loaded state
\* and after every call of every handler, and saveProcess never changes the
\* level of a node.
C14_LevelInvariant ==
    /\ LevelInvariant(hierarchyData)
    /\ [][ /\ LevelInvariant(hierarchyData')
           /\ lastOp'.op = "saveProcess"
              => /\ NodePaths(hierarchyData') = NodePaths(hierarchyData)
                 /\ \A p \in Range(NodePaths(hierarchyData)) :
                       NodeAt(hierarchyData', p).level = NodeAt(hierarchyData, p).level
         ]_vars

\* a process added below an existing one and then renamed by saveProcess
C14_Witness ==
    /\ lastOp.op = "saveProcess"
    /\ lastOp.saved
    /\ lastOp.name # ""
    /\ \E p \in Range(NodePaths(hierarchyData)) :
          /\ Len(p) >= 2
          /\ ~(\E q \in Range(NodePaths(originalHierarchyData)) : q = p)

\* the names of the children of every node, the root included, are pairwise
\* distinct
SiblingNamesDistinct(root) ==
    \A p \in Range(PreOrder(root, <<>>)) :
        LET node == NodeAt(root, p) IN
        HasChildren(node) =>
            \A i, j \in 1..Len(node.children) :
                node.children[i].name = node.children[j].name => i = j

\* C15: in every reachable state of the working tree the names of the
\* children of any one parent are pairwise distinct.
C15_SiblingNamesDistinct == SiblingNamesDistinct(hierarchyData)

\* C16: layout direction preservation.  For every input edge (s,t) given to
\* useFlowLayout the corresponding positioned edge has source = s and
\* target = t, whatever the layout library returned for that edge.
C16_DirectionPreserved ==
    lastOp.op \in {"useFlowLayout", "useFlowLayoutTyped"}
    => /\ Len(lastOp.edges) = Len(lastOp.flowEdges)
       /\ \A i \in 1..Len(lastOp.flowEdges) :
             /\ lastOp.edges[i].source = lastOp.flowEdges[i].source
             /\ lastOp.edges[i].target = lastOp.flowEdges[i].target

\* a parse that accepted its sheet
ParseAccepted ==
    /\ lastOp.op \in {"parseDependencies", "parseDependenciesTyped"}
    /\ lastOp.error = ""

\* the rows of a sheet that have both a source and a target
CompleteRows(data) ==
    SelectSeq(data, LAMBDA row : Trim(row.source) # "" /\ Trim(row.target) # "")

\* C17: for every sheet parseDependencies accepts, the source and target of
\* every returned edge are ids of returned nodes, node ids are pairwise
\* distinct, and the edges are, in order, one per row that has both a source
\* and a target, self-loops and duplicate rows included.
C17_EdgesReferenceNodes ==
    ParseAccepted =>
        LET nodes == lastOp.flowNodes
            edges == lastOp.flowEdges
            rows  == CompleteRows(lastOp.data)
        IN  /\ \A i \in 1..Len(edges) :
                  /\ \E j \in 1..Len(nodes) : nodes[j].id = edges[i].source
                  /\ \E j \in 1..Len(nodes) : nodes[j].id = edges[i].target
            /\ \A i, j \in 1..Len(nodes) : nodes[i].id = nodes[j].id => i = j
            /\ Len(edges) = Len(rows)
            /\ \A i \in 1..Len(rows) :
                  /\ edges[i].source = Trim(rows[i].source)
                  /\ edges[i].target = Trim(rows[i].target)
                  /\ edges[i].label = Trim(rows[i].label)

\* a sheet whose two rows are the same self-loop: two equal edges, one node
C17_Witness ==
    /\ ParseAccepted
    /\ Len(lastOp.flowEdges) = 2
    /\ lastOp.flowEdges[1] = lastOp.flowEdges[2]
    /\ lastOp.flowEdges[1].source = lastOp.flowEdges[1].target
    /\ Len(lastOp.flowNodes) = 1

\* C18: row-level tolerance is lenient.  A row whose source and target are
\* both empty produces nothing, and a row with exactly one of the two
\* produces a node for the side that is present and no edge: the nodes
\* returned are the non-empty sources and targets of all rows, and the edges
\* come from the rows that have both.
C18_LenientRows ==
    ParseAccepted =>
        /\ { lastOp.flowNodes[i].id : i \in 1..Len(lastOp.flowNodes) }
             = UNION { { Trim(lastOp.data[i].source), Trim(lastOp.data[i].target) } :
                       i \in 1..Len(lastOp.data) } \ {""}
        /\ Len(lastOp.flowEdges) = Len(CompleteRows(lastOp.data))

\* a filter value that filters ("" and "All" switch the filter off)
Filtering(value) == value # "" /\ value # "All"

\* whether an L3 node passes the filters of a call record
PassesFilters(node, op) ==
    /\ Filtering(op.itReleaseValue) => L3Matches(node, "it", op.itReleaseValue)
    /\ Filtering(op.useCaseValue) => L3Matches(node, "uc", op.useCaseValue)

\* C19: for non-sentinel filter values the filtered tree contains an L3 node
\* iff the node matches, and an L1 or L2 node iff at least one L3 node below
\* it matches; with both values set exactly the L3 nodes matching both
\* filters are kept.  The L3 leaves of the result, with the names of the
\* nodes above them, are the matching L3 leaves of the input in the same
\* order, the nodes kept above them are nodes of the input in the same order,
\* and no L1 or L2 node of the result is without an L3 node below it.
C19_FilterKeepsMatches ==
    ( /\ lastOp.op = "filterHierarchy"
      /\ Filtering(lastOp.itReleaseValue) \/ Filtering(lastOp.useCaseValue) )
    => LET data    == lastOp.data
           result  == lastOp.result
           matches == SelectSeq(L3Paths(data),
                          LAMBDA p : PassesFilters(NodeAt(data, p), lastOp))
           above(tree, paths, depth) ==
               { << SubSeq(paths[i], 1, depth),
                    NodeAt(tree, SubSeq(paths[i], 1, depth)).name >> :
                 i \in 1..Len(paths) }
       IN  /\ [i \in 1..Len(L3Paths(result)) |-> RowOf(result, L3Paths(result)[i])]
                = [i \in 1..Len(matches) |-> RowOf(data, matches[i])]
           /\ \A depth \in 1..2 :
                 Cardinality(above(result, L3Paths(result), depth))
                    = Cardinality(above(data, matches, depth))
           /\ \A p \in Range(NodePaths(result)) :
                 \E q \in Range(L3Paths(result)) :
                    Len(q) >= Len(p) /\ SubSeq(q, 1, Len(p)) = p

\* both filters set, on a tree where they keep some L3 nodes and drop others,
\* an L2 node and an L1 node with them
C19_Witness ==
    /\ lastOp.op = "filterHierarchy"
    /\ Filtering(lastOp.itReleaseValue)
    /\ Filtering(lastOp.useCaseValue)
    /\ Len(L3Paths(lastOp.result)) >= 2
    /\ Len(L3Paths(lastOp.result)) < Len(L3Paths(lastOp.data))
    /\ Len(lastOp.result.children) < Len(lastOp.data.children)
    /\ Len(NodePaths(lastOp.result)) + 3 <= Len(NodePaths(lastOp.data))

\* k blanks
RECURSIVE Blanks(_)
Blanks(k) == IF k = 0 THEN "" ELSE " " \o Blanks(k - 1)

\* the use case anchor rule: the lower-cased field contains "use case N", or
\* "uc", any number of blanks and N, with the end of the field or a character
\* that is not a digit right after N
AnchoredUseCase(field, number) ==
    LET closed == toLowerCase(field) \o "$"
        after  == { SubSeq(closed, i, i) : i \in 1..Len(closed) }
                     \ {"0", "1", "2", "3", "4", "5", "6", "7", "8", "9"}
    IN  \E c \in after :
           \/ Includes(closed, "use case " \o number \o c)
           \/ \E k \in 0..Len(field) :
                 Includes(closed, "uc" \o Blanks(k) \o number \o c)

\* C20: use case anchor boundary.  Under the filter value "Use Case N" alone
\* an L3 node is kept iff its use_case field contains "use case N" or "uc",
\* optional white space and N (case-insensitive) with N not immediately
\* followed by another digit.
C20_UseCaseAnchor ==
    ( /\ lastOp.op = "filterHierarchy"
      /\ ~Filtering(lastOp.itReleaseValue)
      /\ Filtering(lastOp.useCaseValue) )
    => LET number == SubSeq(lastOp.useCaseValue, Len("Use Case ") + 1,
                            Len(lastOp.useCaseValue))
           kept   == { RowOf(lastOp.result, p) :
                         p \in Range(L3Paths(lastOp.result)) }
       IN  \A p \in Range(L3Paths(lastOp.data)) :
              RowOf(lastOp.data, p) \in kept
                 <=> AnchoredUseCase(NodeAt(lastOp.data, p).use_case, number)

\* the filter "Use Case 1" keeps "Use Case 1 - Meter-to-Cash" and drops
\* "Use Case 13 - Post Event Analysis"
C20_Witness ==
    /\ lastOp.op = "filterHierarchy"
    /\ ~Filtering(lastOp.itReleaseValue)
    /\ lastOp.useCaseValue = "Use Case 1"
    /\ \E p \in Range(L3Paths(lastOp.data)) :
          NodeAt(lastOp.data, p).use_case = "Use Case 13 - Post Event Analysis"
    /\ \E p \in Range(L3Paths(lastOp.result)) :
          NodeAt(lastOp.result, p).use_case = "Use Case 1 - Meter-to-Cash"
    /\ \A p \in Range(L3Paths(lastOp.result)) :
          NodeAt(lastOp.result, p).use_case # "Use Case 13 - Post Event Analysis"

\* C21: filter idempotence.  Applying filterHierarchy with the same two
\* values to the tree it returned gives that tree again, also when that tree
\* is the empty placeholder root.
C21_FilterIdempotent ==
    [][ ( /\ lastOp.op = "filterHierarchy"
          /\ lastOp'.op = "filterHierarchy"
          /\ lastOp'.data = lastOp.result
          /\ lastOp'.itReleaseValue = lastOp.itReleaseValue
          /\ lastOp'.useCaseValue = lastOp.useCaseValue )
        => lastOp'.result = lastOp.result
      ]_vars

\* the placeholder root filtered again under both filters
C21_Witness ==
    /\ lastOp.op = "filterHierarchy"
    /\ Filtering(lastOp.itReleaseValue)
    /\ Filtering(lastOp.useCaseValue)
    /\ lastOp.data # hierarchyData
    /\ lastOp.data = [name |-> "Process Hierarchy", children |-> <<>>]
    /\ lastOp.result = lastOp.data

\* C22: when no L3 node of the input passes the filters that are switched
\* on, the result is the placeholder root, carrying the name of the input
\* and an empty list of children, and never null.
C22_PlaceholderRoot ==
    ( /\ lastOp.op = "filterHierarchy"
      /\ Filtering(lastOp.itReleaseValue) \/ Filtering(lastOp.useCaseValue)
      /\ \A p \in Range(L3Paths(lastOp.data)) :
            ~PassesFilters(NodeAt(lastOp.data, p), lastOp) )
    => /\ lastOp.result # NoProcess
       /\ lastOp.result = [name |-> IF FieldOr(lastOp.data, "name") # ""
                                    THEN lastOp.data.name
                                    ELSE "Process Hierarchy",
                           children |-> <<>>]

\* the loaded tree, whose only L3 process is of IT Release 1, filtered by
\* IT Release 2
C22_Witness ==
    /\ lastOp.op = "filterHierarchy"
    /\ lastOp.data = LoadedHierarchy
    /\ lastOp.itReleaseValue = "IT Release 2"
    /\ ~Filtering(lastOp.useCaseValue)
    /\ lastOp.result.children = <<>>

\* the entry updateSearchIndex pushes for the node at path p
IndexEntry(root, p) ==
    LET node == NodeAt(root, p) IN
    [name |-> node.name,
     level |-> node.level,
     parent |-> IF Len(p) = 1 THEN ""
                ELSE NodeAt(root, SubSeq(p, 1, Len(p) - 1)).name,
     details |-> IF node.level = "L3"
                 THEN [objective |-> node.objective,
                       use_case |-> node.use_case,
                       it_release |-> node.it_release]
                 ELSE <<>>]

\* the nodes of the tree in top-down order, without the L1 and L2 nodes
\* whose name an earlier node of the same level already has
FirstOccurrences(root) ==
    LET paths == NodePaths(root)
        numbered == [i \in 1..Len(paths) |-> [i |-> i, path |-> paths[i]]]
        first(x) ==
            LET node == NodeAt(root, x.path) IN
            \/ node.level = "L3"
            \/ ~\E j \in 1..(x.i - 1) :
                  /\ NodeAt(root, paths[j]).level = node.level
                  /\ NodeAt(root, paths[j]).name = node.name
        kept == SelectSeq(numbered, first)
    IN  [k \in 1..Len(kept) |-> IndexEntry(root, kept[k].path)]

C24_BoxIsLabelEstimate ==
    lastOp.op \in {"useFlowLayout", "useFlowLayoutTyped"}
    => /\ Len(lastOp.elkNodes) = Len(lastOp.flowNodes)
       /\ \A i \in 1..Len(lastOp.flowNodes) :
             LET node == lastOp.flowNodes[i]
                 labelLength == IF node.label # "" THEN Len(node.label)
                                ELSE Len(node.id)
             IN  /\ lastOp.elkNodes[i].id = node.id
                 /\ lastOp.elkNodes[i].width = Max(120, labelLength * 8 + 20)
                 /\ lastOp.elkNodes[i].height = Max(50, 20 + 20)

\* the same for the typed variant alone
C24_TypedBoxIsLabelEstimate ==
    lastOp.op = "useFlowLayoutTyped" => C24_BoxIsLabelEstimate

\* C25: undoChange and redoChange change nothing but the cursor
\* historyIndex: the working tree, the modified, added and deleted sets (and
\* so the change count), the entries of the history log, the baseline and
\* the search index are the same after the call as before it.
C25_UndoRedoMoveCursorOnly ==
    [][ lastOp'.op \in {"undoChange", "redoChange"}
        => /\ hierarchyData' = hierarchyData
           /\ modified' = modified
           /\ added' = added
           /\ deleted' = deleted
           /\ getChangeCount' = getChangeCount
           /\ changeHistory' = changeHistory
           /\ originalHierarchyData' = originalHierarchyData
           /\ searchIndex' = searchIndex ]_vars

\* a redo moved the cursor while changes were pending
C25_Witness ==
    /\ lastOp.op = "redoChange"
    /\ lastOp.moved
    /\ getChangeCount > 0
    /\ hierarchyData # originalHierarchyData
    /\ historyIndex < Len(changeHistory) - 1

\* C26: after every operation that changes the working tree (addProcess,
\* saveProcess, a confirmed discardAllChanges, importFromExcel) the search
\* index is the index a rebuild from the new working tree gives; it never
\* describes the tree as it was before.
C26_SearchIndexFresh ==
    [][ hierarchyData' # hierarchyData
        => searchIndex' = updateSearchIndex(hierarchyData') ]_vars

\* saveProcess changed the tree, and the index of the tree before the call
\* differs from the index now kept
C26_Witness ==
    /\ lastOp.op = "saveProcess"
    /\ hierarchyData # originalHierarchyData
    /\ searchIndex = updateSearchIndex(hierarchyData)
    /\ searchIndex # updateSearchIndex(originalHierarchyData)
    /\ MapSize(modified) > 0

\* C27: right after every committed edit, one that cut off a redo suffix or
\* pushed the oldest entry out of a full log included, the cursor is on the
\* last entry of the log, that entry is the edit just committed, and
\* redoChange, whose guard is historyIndex >= changeHistory.length - 1,
\* returns without moving the cursor.
C27_CursorOnCommittedEdit ==
    [][ now' = now + 1
        => /\ Len(changeHistory') >= 1
           /\ historyIndex' = Len(changeHistory') - 1
           /\ changeHistory'[historyIndex' + 1].timestamp = now'
           /\ changeHistory'[historyIndex' + 1].action
                 = (CASE lastOp'.op = "addProcess" -> "add"
                      [] lastOp'.op = "saveProcess" -> "modify"
                      [] lastOp'.op = "deleteProcess" -> "delete"
                      [] OTHER -> "")
           /\ historyIndex' >= Len(changeHistory') - 1 ]_vars

\* an edit was committed into a full log: the oldest entry is gone and the
\* cursor is on the new entry
C27_Witness ==
    /\ Len(changeHistory) = MAX_HISTORY
    /\ changeHistory[1].timestamp > 1
    /\ historyIndex = MAX_HISTORY - 1
    /\ changeHistory[MAX_HISTORY].timestamp = now
    /\ lastOp.op \in {"addProcess", "saveProcess", "deleteProcess"}

C29_ExportCommitsDeletions ==
    [][ ( /\ lastOp.op = "exportToExcel"
          /\ lastOp.success
          /\ lastOp'.op = "exportToExcel"
          /\ lastOp'.success )
        => lastOp'.rows = lastOp.rows ]_vars

\* the node of the tree deleteProcess(processId) works on: the object the
\* added map holds under that id, else the first node of the tree with that
\* id; the empty path when the object is not a node of the tree
DeleteTargetPath(root, addedMap, processId) ==
    IF processId \in DOMAIN addedMap THEN addedMap[processId].path
    ELSE FindPathById(root, processId)

\* the node at path p is the node at path t or one of its descendants
IsUnder(p, t) ==
    /\ t # <<>>
    /\ Len(p) >= Len(t)
    /\ SubSeq(p, 1, Len(t)) = t

\* C30: deleteProcess affects the subtree of its target only.  An L3 node
\* that was live before the call and is neither the target nor one of its
\* descendants is not marked deleted by the call and still has its row in
\* the export, also when it has the name of a deleted L3 node under another
\* parent.
C30_DeleteOnlyTargetSubtree ==
    [][ (lastOp'.op = "deleteProcess" /\ lastOp'.result = "deleted")
        => LET t == DeleteTargetPath(hierarchyData, added, lastOp'.processId) IN
           \A p \in Range(L3Paths(hierarchyData)) :
              ( /\ ~IsUnder(p, t)
                /\ getProcessId(NodeAt(hierarchyData, p)) \notin deleted )
              => /\ getProcessId(NodeAt(hierarchyData, p)) \notin deleted'
                 /\ RowOf(hierarchyData, p)
                       \in Range(flattenHierarchy(hierarchyData', deleted'))
      ]_vars

\* ------------------------------------------------------------ model sanity
TypeOK ==
    /\ historyIndex \in -1..MAX_HISTORY
    /\ now \in 0..MaxHistoryEdits
    /\ \A k \in DOMAIN added :
          added[k].path # <<>> =>
              getProcessId(NodeAt(hierarchyData, added[k].path)) = k

====
